---- MODULE Spec2Model ----
(***************************************************************************)
(* Topology-aware graph synthesis: GraphBuilder.build and the registered   *)
(* topologies (star, pipeline, hierarchy, small_world) of                  *)
(* backend/engine/visualization.                                           *)
(*                                                                         *)
(* Python strings are sequences of one-character strings, so that the id   *)
(* formatting of _expand_node_instances ("{base}_{i}") and the parsing the *)
(* topologies do on it (rsplit("_", 1)[0]) are computed, not assumed.      *)
(* An optional value (a dict key that may be missing, a parameter that may *)
(* be None) is a sequence of length at most one: <<>> or <<v>>.            *)
(***************************************************************************)
EXTENDS Integers, Sequences, FiniteSets, TLC

\* ------------------------------------------------------------------
\* Bounds of the input space
\* ------------------------------------------------------------------
\* node groups per IR
MaxGroups == 2

\* instances per node group
MaxCount == 3

\* tiers of the three-level hierarchies, instances per tier
MaxTier == 3

\* instances of the one-type rings given to small_world without rewiring
MaxRing == 10

\* the string-hash secrets a process may start with are 0..MaxHashSeed
MaxHashSeed == 2

\* instances of the rings given to small_world with rewiring
MaxRewired == 4

\* length of the random source's stream before it repeats
RngPeriod == 3

\* ------------------------------------------------------------------
\* Strings
\* ------------------------------------------------------------------
None == <<>>

Some(v) == <<v>>

DigitChars == <<"0", "1", "2", "3", "4", "5", "6", "7", "8", "9">>

RECURSIVE IntToStr(_)
IntToStr(i) ==
    IF i < 10 THEN <<DigitChars[i + 1]>>
    ELSE IntToStr(i \div 10) \o <<DigitChars[(i % 10) + 1]>>

RECURSIVE LStrip(_)
LStrip(s) == IF s # <<>> /\ Head(s) = " " THEN LStrip(Tail(s)) ELSE s

RECURSIVE RStrip(_)
RStrip(s) ==
    IF s # <<>> /\ s[Len(s)] = " " THEN RStrip(SubSeq(s, 1, Len(s) - 1)) ELSE s

Strip(s) == RStrip(LStrip(s))

\* nid.rsplit("_", 1)[0]: what precedes the last underscore, or all of nid.
RSplitBase(s) ==
    LET us == {i \in 1..Len(s) : s[i] = "_"}
    IN  IF us = {} THEN s
        ELSE SubSeq(s, 1, (CHOOSE i \in us : \A j \in us : j <= i) - 1)

\* f"{base_id}_{i}"
InstanceId(base, i) == base \o <<"_">> \o IntToStr(i)

\* ------------------------------------------------------------------
\* Sequence helpers
\* ------------------------------------------------------------------
Range(s) == {s[i] : i \in 1..Len(s)}

RECURSIVE Concat(_)
Concat(ss) == IF ss = <<>> THEN <<>> ELSE Head(ss) \o Concat(Tail(ss))

SeqsUpTo(S, n) == UNION {[1..m -> S] : m \in 0..n}

\* {nid: i for i, nid in enumerate(ids)}[x]: the LAST position wins (0-based)
LastIndex(s, x) == (CHOOSE i \in 1..Len(s) : s[i] = x /\ \A j \in (i + 1)..Len(s) : s[j] # x) - 1

\* ------------------------------------------------------------------
\* Node expansion (GraphBuilder._expand_node_instances)
\* ------------------------------------------------------------------
\* A node group of the IR: isDict is FALSE for a list entry that is no dict;
\* id, label and count are optional keys.
Group(id, label, count) == [isDict |-> TRUE, id |-> id, label |-> label, count |-> count]

NotADict == [isDict |-> FALSE, id |-> None, label |-> None, count |-> None]

\* str(group.get("id", "")).strip()
GroupBaseId(g) == Strip(IF g.id = None THEN <<>> ELSE g.id[1])

\* str(group.get("label", base_id)).strip() or base_id
GroupLabel(g) ==
    LET l == Strip(IF g.label = None THEN GroupBaseId(g) ELSE g.label[1])
    IN  IF l = <<>> THEN GroupBaseId(g) ELSE l

\* Faulty variant: only an absent count defaults to 1, a count of 0 is kept.
GroupCountZeroKept(g) == IF g.count = None THEN 1 ELSE g.count[1]

\* int(group.get("count", 1) or 1)
GroupCount(g) == IF g.count = None \/ g.count = Some(0) THEN 1 ELSE g.count[1]

\* the palette of _color_for_type
Palette ==
    <<"#1f77b4", "#ff7f0e", "#2ca02c", "#d62728", "#9467bd",
      "#8c564b", "#e377c2", "#7f7f7f", "#bcbd22", "#17becf">>

Alphabet ==
    <<"_", "0", "1", "2", "3", "4", "5", "6", "7", "8", "9",
      "a", "b", "c", "d", "e", "f", "g", "h", "i", "j", "k", "l", "m",
      "n", "o", "p", "q", "r", "s", "t", "u", "v", "w", "x", "y", "z">>

CharRank(c) ==
    IF \E i \in 1..Len(Alphabet) : Alphabet[i] = c
    THEN CHOOSE i \in 1..Len(Alphabet) : Alphabet[i] = c
    ELSE 0

RECURSIVE HashFold(_, _, _)
HashFold(h, s, i) ==
    IF i > Len(s) THEN h ELSE HashFold((h * 31 + CharRank(s[i])) % 1021, s, i + 1)

\* hash(s) of a str: a signed integer that depends on the string and on the
\* secret the interpreter drew when the process started (PYTHONHASHSEED);
\* the empty string hashes to 0 under every secret.  The keyed function is a
\* stand-in for the interpreter's: a polynomial over the characters, started
\* at the secret, read as a signed value.
Hash(seed, s) ==
    IF s = <<>> THEN 0
    ELSE LET h == HashFold((seed * 577 + 131) % 1021, s, 1)
         IN  IF h % 2 = 1 THEN 0 - h ELSE h

Abs(x) == IF x < 0 THEN 0 - x ELSE x

\* palette[abs(hash(node_type)) % len(palette)]
ColorForType(seed, node_type) == Palette[(Abs(Hash(seed, node_type)) % Len(Palette)) + 1]

FlatNode(base, label, i, color) ==
    [kind |-> "node", id |-> InstanceId(base, i), label |-> label, type |-> base,
     color |-> color]

\* The instances one group contributes: none for a non-dict entry or an empty
\* id, else range(1, count + 1).
ExpandGroup(g, seed) ==
    IF ~g.isDict THEN <<>>
    ELSE IF GroupBaseId(g) = <<>> THEN <<>>
    ELSE [i \in 1..GroupCount(g) |->
            FlatNode(GroupBaseId(g), GroupLabel(g), i, ColorForType(seed, GroupBaseId(g)))]

\* seed is the hash secret of the process that runs the call
ExpandNodeInstances(groups, seed) ==
    Concat([j \in 1..Len(groups) |-> ExpandGroup(groups[j], seed)])

\* ------------------------------------------------------------------
\* Topology helpers
\* ------------------------------------------------------------------
\* Faulty variant: a key the defaults declare keeps its default.
MergeParamsDefaultsWin(defaults, params) ==
    [key \in (DOMAIN defaults) \cup (DOMAIN params) |->
        IF key \in DOMAIN defaults THEN defaults[key] ELSE params[key]]

\* TopologyDefinition.merge_params: dict(default_params) updated by params
MergeParams(defaults, params) ==
    [key \in (DOMAIN defaults) \cup (DOMAIN params) |->
        IF key \in DOMAIN params THEN params[key] ELSE defaults[key]]

\* Faulty variant: merged is cls.default_params itself, not a copy of it, so
\* the update writes the IR's keys into the class attribute.
DefaultParamsUpdatedInPlace(defaults, params) == MergeParams(defaults, params)

\* cls.default_params after merge_params: dict(cls.default_params) is a copy,
\* and the update writes to the copy
DefaultParamsAfterMerge(defaults, params) == defaults

\* Faulty variant: the defaults are filled into the caller's params dict.
ParamsFilledInPlace(defaults, params) == MergeParams(defaults, params)

\* the params dict given to merge_params, after it: update only reads it
ParamsAfterMerge(defaults, params) == params

\* params.get(key)
ParamGet(params, key) == IF key \in DOMAIN params THEN params[key] ELSE None

NodeIds(nodes) == [i \in 1..Len(nodes) |-> nodes[i].id]

\* by_type[t]: the ids whose base (id.rsplit("_", 1)[0]) is t, in input order
ByType(ids, t) == SelectSeq(ids, LAMBDA nid : RSplitBase(nid) = t)

\* the keys of by_type, in insertion order (first appearance)
RECURSIVE TypeOrder(_)
TypeOrder(ids) ==
    IF ids = <<>> THEN <<>>
    ELSE LET init == TypeOrder(SubSeq(ids, 1, Len(ids) - 1))
             t == RSplitBase(ids[Len(ids)])
         IN  IF t \in Range(init) THEN init ELSE Append(init, t)

Edge(src, tgt) == [source |-> src, target |-> tgt]

Edges(es) == [ok |-> TRUE, etype |-> "", edges |-> es]

Raised(etype) == [ok |-> FALSE, etype |-> etype, edges |-> <<>>]

\* ------------------------------------------------------------------
\* Star (StarTopology.build_edges)
\* ------------------------------------------------------------------
StarDefaultParams == [center |-> None]

\* Faulty variant: case B (a node id) is tried before case A (a node type).
StarExplicitCenterIdFirst(ids, center_param) ==
    IF center_param # None /\ center_param[1] \in Range(ids)
    THEN <<center_param[1]>>
    ELSE IF center_param # None /\ center_param[1] \in Range(TypeOrder(ids))
    THEN ByType(ids, center_param[1])
    ELSE <<>>

\* Case A (a node type), else case B (a node id); <<>> when neither resolves
StarExplicitCenter(ids, center_param) ==
    IF center_param # None /\ center_param[1] \in Range(TypeOrder(ids))
    THEN ByType(ids, center_param[1])
    ELSE IF center_param # None /\ center_param[1] \in Range(ids)
    THEN <<center_param[1]>>
    ELSE <<>>

\* Case C: the ids of the first type that has exactly one instance
StarInferredCenter(ids) ==
    LET types == TypeOrder(ids)
        singles == {i \in 1..Len(types) : Len(ByType(ids, types[i])) = 1}
    IN  IF singles = {} THEN <<>>
        ELSE ByType(ids, types[CHOOSE i \in singles : \A j \in singles : i <= j])

StarCenterNodes(ids, center_param) ==
    IF StarExplicitCenter(ids, center_param) # <<>>
    THEN StarExplicitCenter(ids, center_param)
    ELSE StarInferredCenter(ids)

\* Faulty variant: a center given as a node type is used as the hub itself
\* instead of the type's first instance.
StarBuildEdgesTypeAsHub(nodes, params) ==
    LET merged == MergeParams(StarDefaultParams, params)
        ids == NodeIds(nodes)
        center_param == ParamGet(merged, "center")
        center_nodes == StarCenterNodes(ids, center_param)
    IN  IF center_nodes = <<>> /\ ids = <<>> THEN Raised("IndexError")
        ELSE LET center == IF center_nodes = <<>> THEN ids[1]
                            ELSE IF center_param # None /\ center_param[1] \in Range(TypeOrder(ids))
                            THEN center_param[1]
                            ELSE center_nodes[1]
                 others == SelectSeq(ids, LAMBDA nid : nid # center)
             IN  Edges([i \in 1..Len(others) |-> Edge(center, others[i])])

\* Faulty variant: the center is not skipped, so it gets an edge to itself.
StarBuildEdgesKeepsCenter(nodes, params) ==
    LET merged == MergeParams(StarDefaultParams, params)
        ids == NodeIds(nodes)
        center_nodes == StarCenterNodes(ids, ParamGet(merged, "center"))
    IN  IF center_nodes = <<>> /\ ids = <<>> THEN Raised("IndexError")
        ELSE LET center == IF center_nodes = <<>> THEN ids[1] ELSE center_nodes[1]
             IN  Edges([i \in 1..Len(ids) |-> Edge(center, ids[i])])

StarBuildEdges(nodes, params) ==
    LET merged == MergeParams(StarDefaultParams, params)
        ids == NodeIds(nodes)
        center_nodes == StarCenterNodes(ids, ParamGet(merged, "center"))
    IN  IF center_nodes = <<>> /\ ids = <<>> THEN Raised("IndexError")
        ELSE LET center == IF center_nodes = <<>> THEN ids[1] ELSE center_nodes[1]
                 others == SelectSeq(ids, LAMBDA nid : nid # center)
             IN  Edges([i \in 1..Len(others) |-> Edge(center, others[i])])

\* ------------------------------------------------------------------
\* Pipeline (PipelineTopology.build_edges)
\* ------------------------------------------------------------------
PipelineDefaultParams == [connections |-> None]

\* connections: None, or Some(the dict's items in insertion order), each item
\* [src |-> key, tgts |-> the list of target keys]
Connection(src, tgts) == [src |-> src, tgts |-> tgts]

\* resolve(key)
PipelineResolve(ids, key) ==
    IF key \in Range(TypeOrder(ids)) THEN ByType(ids, key)
    ELSE IF key \in Range(ids) THEN <<key>>
    ELSE <<>>

\* every (src, tgt) the four nested loops visit, in the order they visit it
PipelinePairs(ids, conns) ==
    Concat([c \in 1..Len(conns) |->
      Concat([t \in 1..Len(conns[c].tgts) |->
        LET src_nodes == PipelineResolve(ids, conns[c].src)
            tgt_nodes == PipelineResolve(ids, conns[c].tgts[t])
        IN  Concat([s \in 1..Len(src_nodes) |->
              [d \in 1..Len(tgt_nodes) |-> Edge(src_nodes[s], tgt_nodes[d])]])])])

\* Faulty variant: index[tgt] < index[src], which lets a node connect to itself.
PipelineBackwardStrict(ids, e) == LastIndex(ids, e.target) < LastIndex(ids, e.source)

\* index[tgt] <= index[src]
PipelineBackward(ids, e) == LastIndex(ids, e.target) <= LastIndex(ids, e.source)

PipelineLinear(ids) == [i \in 1..(Len(ids) - 1) |-> Edge(ids[i], ids[i + 1])]

\* Faulty variant: only a missing connections (is None) selects the linear chain,
\* so an empty dict yields no edge.
PipelineBuildEdgesNoneOnly(nodes, params) ==
    LET merged == MergeParams(PipelineDefaultParams, params)
        ids == NodeIds(nodes)
        connections == ParamGet(merged, "connections")
    IN  IF Len(nodes) < 2 THEN Edges(<<>>)
        ELSE IF connections = None THEN Edges(PipelineLinear(ids))
        ELSE LET pairs == PipelinePairs(ids, connections[1])
             IN  IF \E i \in 1..Len(pairs) : PipelineBackward(ids, pairs[i])
                 THEN Raised("ValueError")
                 ELSE Edges(pairs)

PipelineBuildEdges(nodes, params) ==
    LET merged == MergeParams(PipelineDefaultParams, params)
        ids == NodeIds(nodes)
        connections == ParamGet(merged, "connections")
    IN  IF Len(nodes) < 2 THEN Edges(<<>>)
        ELSE IF connections = None \/ connections = Some(<<>>) THEN Edges(PipelineLinear(ids))
        ELSE LET pairs == PipelinePairs(ids, connections[1])
             IN  IF \E i \in 1..Len(pairs) : PipelineBackward(ids, pairs[i])
                 THEN Raised("ValueError")
                 ELSE Edges(pairs)

\* ------------------------------------------------------------------
\* Hierarchy (HierarchyTopology.build_edges)
\* ------------------------------------------------------------------
\* branch_factor is None, an int or a list of ints
BFNone == [tag |-> "none", n |-> 0, l |-> <<>>]

BFInt(n) == [tag |-> "int", n |-> n, l |-> <<>>]

BFList(l) == [tag |-> "list", n |-> 0, l |-> l]

DefaultBranchFactor == 2

HierarchyDefaultParams == [levels |-> None, branch_factor |-> BFInt(DefaultBranchFactor)]

Priority ==
    << <<"a", "d", "m", "i", "n", "i", "s", "t", "r", "a", "t", "o", "r">>,
       <<"p", "r", "i", "n", "c", "i", "p", "a", "l">>,
       <<"t", "e", "a", "c", "h", "e", "r">>,
       <<"s", "t", "u", "d", "e", "n", "t">> >>

\* Faulty variant: when no priority type is present the inference falls back to
\* the types of the nodes, in input order.
HierarchyLevelsAnyType(ids, levels) ==
    IF levels = None \/ levels = Some(<<>>)
    THEN IF SelectSeq(Priority, LAMBDA p : p \in Range(TypeOrder(ids))) = <<>>
         THEN TypeOrder(ids)
         ELSE SelectSeq(Priority, LAMBDA p : p \in Range(TypeOrder(ids)))
    ELSE levels[1]

\* levels as given, or (when None or empty) the priority types present
HierarchyLevels(ids, levels) ==
    IF levels = None \/ levels = Some(<<>>)
    THEN SelectSeq(Priority, LAMBDA p : p \in Range(TypeOrder(ids)))
    ELSE levels[1]

\* [x] * n (empty for n <= 0)
Repeat(x, n) == [i \in 1..n |-> x]

\* an int is broadcast over the level transitions; None or [] becomes [2, ...]
HierarchyBranchFactor(bf, nlevels) ==
    LET asList == IF bf.tag = "int" THEN Repeat(bf.n, nlevels - 1) ELSE bf.l
    IN  IF asList = <<>> THEN Repeat(2, nlevels - 1) ELSE asList

\* Case A (a single root and a non-empty level 1) and case B (several roots)
HierarchyLevel0Edges(ids, levels) ==
    LET level0_nodes == ByType(ids, levels[1])
        level1_nodes == IF Len(levels) > 1 /\ levels[2] # <<>> THEN ByType(ids, levels[2]) ELSE <<>>
        k == Len(level0_nodes)
    IN  IF k = 1 /\ level1_nodes # <<>>
        THEN [c \in 1..Len(level1_nodes) |-> Edge(level0_nodes[1], level1_nodes[c])]
        ELSE IF k > 1
        THEN [i \in 1..k |-> Edge(level0_nodes[i], level0_nodes[(i % k) + 1])]
        ELSE <<>>

\* Faulty variant: the tree loop always starts at level 0, also after the single
\* root was connected.
HierarchyStartLevelZero(ids, levels) == 0

\* start_level (0-based)
HierarchyStartLevel(ids, levels) == IF Len(ByType(ids, levels[1])) = 1 THEN 1 ELSE 0

\* Faulty variant: child_idx starts again at 0 for every parent, so every
\* parent takes the first children.
RECURSIVE HierarchyFanOutRestart(_, _, _, _)
HierarchyFanOutRestart(parents, children, fanout, child_idx) ==
    IF parents = <<>> THEN <<>>
    ELSE LET left == Len(children)
             want == IF fanout < 0 THEN 0 ELSE fanout
             take == IF want < left THEN want ELSE left
         IN  [c \in 1..take |-> Edge(Head(parents), children[c])]
             \o HierarchyFanOutRestart(Tail(parents), children, fanout, 0)

\* the inner loops for one level transition: each parent in turn takes the next
\* children, range(fanout) of them, stopping when child_idx reaches the end
RECURSIVE HierarchyFanOut(_, _, _, _)
HierarchyFanOut(parents, children, fanout, child_idx) ==
    IF parents = <<>> THEN <<>>
    ELSE LET left == Len(children) - child_idx
             want == IF fanout < 0 THEN 0 ELSE fanout
             take == IF want < left THEN want ELSE left
         IN  [c \in 1..take |-> Edge(Head(parents), children[child_idx + c])]
             \o HierarchyFanOut(Tail(parents), children, fanout, child_idx + take)

\* the transitions (0-based i) of the tree loop that are not skipped
HierarchyTransitions(ids, levels) ==
    {i \in HierarchyStartLevel(ids, levels)..(Len(levels) - 2) :
        ByType(ids, levels[i + 1]) # <<>> /\ ByType(ids, levels[i + 2]) # <<>>}

HierarchyTreeEdges(ids, levels, bf) ==
    Concat([j \in 1..(Len(levels) - 1) |->
        IF (j - 1) \in HierarchyTransitions(ids, levels)
        THEN HierarchyFanOut(ByType(ids, levels[j]), ByType(ids, levels[j + 1]), bf[j], 0)
        ELSE <<>>])

HierarchyBuildEdges(nodes, params) ==
    LET merged == MergeParams(HierarchyDefaultParams, params)
        ids == NodeIds(nodes)
        levels == HierarchyLevels(ids, ParamGet(merged, "levels"))
        bf == HierarchyBranchFactor(merged.branch_factor, Len(levels))
    IN  IF levels = <<>> THEN Raised("IndexError")
        ELSE IF \E i \in HierarchyTransitions(ids, levels) : i + 1 > Len(bf)
        THEN Raised("IndexError")
        ELSE Edges(HierarchyLevel0Edges(ids, levels) \o HierarchyTreeEdges(ids, levels, bf))

\* ------------------------------------------------------------------
\* The process-level random source (module random)
\* ------------------------------------------------------------------
\* The generator is its stream of raw draws (tape, repeated) and the number of
\* draws taken so far (pos).  A raw draw r stands for the float r / RawLevels
\* of random.random() and for the index r mod n of random.choice.
RawLevels == 4

RngDraw(rng) == rng.tape[(rng.pos % Len(rng.tape)) + 1]

RngAdvance(rng) == [rng EXCEPT !.pos = @ + 1]

\* random.random() < rewiring_prob, the probability given in percent
RandomBelow(rng, prob) == RngDraw(rng) * 100 < prob * RawLevels

\* random.choice(seq)
RandomChoice(rng, seq) == seq[(RngDraw(rng) % Len(seq)) + 1]

\* ------------------------------------------------------------------
\* Small world (SmallWorldTopology.build_edges)
\* ------------------------------------------------------------------
DefaultK == 4

DefaultRewiringProb == 10

\* k and rewiring_prob are optional values too: an IR may give None for them
SmallWorldDefaultParams ==
    [node_type |-> None, k |-> Some(DefaultK), rewiring_prob |-> Some(DefaultRewiringProb)]

\* node_ids: the instances of node_type, or every node when it is None or ""
SmallWorldNodeIds(ids, node_type) ==
    IF node_type = None \/ node_type = Some(<<>>) THEN ids ELSE ByType(ids, node_type[1])

\* Faulty variant: k is not clamped to n - 1.
SmallWorldKUnclamped(k, n) == IF k % 2 # 0 THEN k - 1 ELSE k

\* k = min(k, n - 1); if k % 2 != 0: k -= 1
SmallWorldK(k, n) ==
    LET m == IF k < n - 1 THEN k ELSE n - 1
    IN  IF m % 2 # 0 THEN m - 1 ELSE m

\* Faulty variant: a rewired target that is the source itself is kept.
RECURSIVE SmallWorldLoopKeepsSelf(_, _, _, _, _)
SmallWorldLoopKeepsSelf(node_ids, half, prob, a, rng) ==
    IF a >= Len(node_ids) * half THEN [edges |-> <<>>, rng |-> rng]
    ELSE LET n == Len(node_ids)
             i == a \div half
             j == (a % half) + 1
             src == node_ids[i + 1]
             rewire == RandomBelow(rng, prob)
             rng1 == RngAdvance(rng)
             tgt == IF rewire THEN RandomChoice(rng1, node_ids) ELSE node_ids[((i + j) % n) + 1]
             rng2 == IF rewire THEN RngAdvance(rng1) ELSE rng1
             rest == SmallWorldLoopKeepsSelf(node_ids, half, prob, a + 1, rng2)
         IN  [edges |-> <<Edge(src, tgt)>> \o rest.edges, rng |-> rest.rng]

\* The two nested loops from attempt a (0-based, a = i * (k // 2) + (j - 1)) on:
\* the edges appended and the random source as the loops leave it.
RECURSIVE SmallWorldLoop(_, _, _, _, _)
SmallWorldLoop(node_ids, half, prob, a, rng) ==
    IF a >= Len(node_ids) * half THEN [edges |-> <<>>, rng |-> rng]
    ELSE LET n == Len(node_ids)
             i == a \div half
             j == (a % half) + 1
             src == node_ids[i + 1]
             rewire == RandomBelow(rng, prob)
             rng1 == RngAdvance(rng)
             tgt == IF rewire THEN RandomChoice(rng1, node_ids) ELSE node_ids[((i + j) % n) + 1]
             rng2 == IF rewire THEN RngAdvance(rng1) ELSE rng1
             rest == SmallWorldLoop(node_ids, half, prob, a + 1, rng2)
         IN  IF rewire /\ tgt = src THEN rest
             ELSE [edges |-> <<Edge(src, tgt)>> \o rest.edges, rng |-> rest.rng]

\* build_edges and the random source after it.  min(None, n - 1) raises
\* TypeError before any draw; random.random() < None raises it after the first
\* draw was taken.
SmallWorldBuild(nodes, params, rng) ==
    LET merged == MergeParams(SmallWorldDefaultParams, params)
        node_ids == SmallWorldNodeIds(NodeIds(nodes), merged.node_type)
        n == Len(node_ids)
    IN  IF n < 3 THEN [ok |-> TRUE, etype |-> "", edges |-> <<>>, rng |-> rng]
        ELSE IF merged.k = None
        THEN [ok |-> FALSE, etype |-> "TypeError", edges |-> <<>>, rng |-> rng]
        ELSE LET half == SmallWorldK(merged.k[1], n) \div 2
             IN  IF half < 1 THEN [ok |-> TRUE, etype |-> "", edges |-> <<>>, rng |-> rng]
                 ELSE IF merged.rewiring_prob = None
                 THEN [ok |-> FALSE, etype |-> "TypeError", edges |-> <<>>,
                       rng |-> RngAdvance(rng)]
                 ELSE LET loop == SmallWorldLoop(node_ids, half, merged.rewiring_prob[1], 0, rng)
                      IN  [ok |-> TRUE, etype |-> "", edges |-> loop.edges, rng |-> loop.rng]

SmallWorldBuildEdges(nodes, params, rng) ==
    LET built == SmallWorldBuild(nodes, params, rng)
    IN  IF built.ok THEN Edges(built.edges) ELSE Raised(built.etype)

\* ------------------------------------------------------------------
\* The registry (TopologyLoader._load_topologies, GraphBuilder.__init__)
\* ------------------------------------------------------------------
\* One entry per class found in the topologies folder, keyed by its name, with
\* the class attributes: description by its first sentence, params_schema by
\* its keys, ir_example by its keys and
\* the value of its "topology" key.  A class that declares no ir_example has
\* the base class's empty dict.
StarTopology ==
    [name |-> "star", cls |-> "StarTopology",
     description |-> "A star-shaped structure with a single central node.",
     params_schema |-> {"center"},
     default_params |-> StarDefaultParams,
     ir_example |-> [keys |-> {"topology", "nodes", "params"}, topology |-> Some("star")]]

PipelineTopology ==
    [name |-> "pipeline", cls |-> "PipelineTopology",
     description |-> "An ordered execution pipeline supporting fan-in and fan-out.",
     params_schema |-> {"connections"},
     default_params |-> PipelineDefaultParams,
     ir_example |-> [keys |-> {}, topology |-> None]]

HierarchyTopology ==
    [name |-> "hierarchy", cls |-> "HierarchyTopology",
     description |-> "A tree-based structure with explicit hierarchy levels.",
     params_schema |-> {"levels", "branch_factor"},
     default_params |-> HierarchyDefaultParams,
     ir_example |-> [keys |-> {"topology", "nodes", "params"}, topology |-> Some("hierarchy")]]

SmallWorldTopology ==
    [name |-> "small_world", cls |-> "SmallWorldTopology",
     description |-> "A small-world network with strong local clustering.",
     params_schema |-> {"node_type", "k", "rewiring_prob"},
     default_params |-> SmallWorldDefaultParams,
     ir_example |-> [keys |-> {"topology", "nodes", "params"}, topology |-> Some("small_world")]]

\* TopologyDefinition.sanity_check: its assertions on the class attributes
SanityCheck(c) ==
    /\ c.name # ""
    /\ c.description # ""
    /\ "topology" \in c.ir_example.keys
    /\ c.ir_example.topology = Some(c.name)
    /\ "nodes" \in c.ir_example.keys

TopologyClasses == {StarTopology, PipelineTopology, HierarchyTopology, SmallWorldTopology}

\* os.listdir gives the files in an order of its own: any registration order.
\* Every subclass found is registered; sanity_check is not called.
LoadTopologies ==
    {reg \in [1..Cardinality(TopologyClasses) -> TopologyClasses] :
        \A i, j \in DOMAIN reg : reg[i] = reg[j] => i = j}

\* list(self._topology_classes.keys())
RegistryNames(reg) == [i \in 1..Len(reg) |-> reg[i].name]

\* Faulty variant: an unknown name falls back to the star topology.
RegistryGetOrStar(reg, name) ==
    IF name \in Range(RegistryNames(reg))
    THEN Some((CHOOSE e \in Range(reg) : e.name = name).cls)
    ELSE Some("StarTopology")

\* self._topology_classes.get(topology): <<>> or <<cls>>
RegistryGet(reg, name) ==
    IF name \in Range(RegistryNames(reg))
    THEN Some((CHOOSE e \in Range(reg) : e.name = name).cls)
    ELSE None

\* ------------------------------------------------------------------
\* GraphBuilder.build
\* ------------------------------------------------------------------
\* The IR: isDict is FALSE for a value that is no dict.  topology is None when
\* the key is missing (or None).  nodes and params are tagged: "absent", the
\* expected container ("list", "dict"), None, or a value of another type that
\* is falsy ("falsy": 0, "", []) or truthy ("other").
IR(topology, nodes, params) ==
    [isDict |-> TRUE, topology |-> topology, nodes |-> nodes, params |-> params]

NotADictIR ==
    [isDict |-> FALSE, topology |-> None,
     nodes |-> [tag |-> "absent", v |-> <<>>], params |-> [tag |-> "absent", v |-> <<>>]]

NodesAbsent == [tag |-> "absent", v |-> <<>>]

NodesList(groups) == [tag |-> "list", v |-> groups]

NodesOther == [tag |-> "other", v |-> <<>>]

ParamsAbsent == [tag |-> "absent", v |-> <<>>]

ParamsNone == [tag |-> "none", v |-> <<>>]

ParamsDict(d) == [tag |-> "dict", v |-> d]

ParamsFalsy == [tag |-> "falsy", v |-> <<>>]

ParamsOther == [tag |-> "other", v |-> <<>>]

\* Faulty variant: the id leaves the edge's position out.
EdgeIdNoIndex(idx, src, tgt) == <<"e", "_">> \o src \o <<"_", "t", "o", "_">> \o tgt

\* f"e_{idx}_{src}_to_{tgt}"
EdgeId(idx, src, tgt) ==
    <<"e", "_">> \o IntToStr(idx) \o <<"_">> \o src \o <<"_", "t", "o", "_">> \o tgt

\* no topology supplies ids of its own: every edge gets the id of its position
EnsureEdgeIds(edges) ==
    [i \in 1..Len(edges) |->
        [kind |-> "edge", source |-> edges[i].source, target |-> edges[i].target,
         id |-> EdgeId(i, edges[i].source, edges[i].target)]]

Returned(graph) == [status |-> "ok", graph |-> graph, etype |-> "", msg |-> "", available |-> <<>>]

BuildError(etype, msg, available) ==
    [status |-> "error", graph |-> <<>>, etype |-> etype, msg |-> msg, available |-> available]

\* Faulty variant: the edges are put in front of the nodes.
FinalGraphEdgesFirst(flat_nodes, edges) == edges \o flat_nodes

\* final_graph = flat_nodes + edges
FinalGraph(flat_nodes, edges) == flat_nodes \o edges

\* topo.build_edges(flat_nodes, params), by the class the registry gave
BuildEdges(cls, nodes, params, rng) ==
    CASE cls = "StarTopology" -> StarBuildEdges(nodes, params)
      [] cls = "PipelineTopology" -> PipelineBuildEdges(nodes, params)
      [] cls = "HierarchyTopology" -> HierarchyBuildEdges(nodes, params)
      [] cls = "SmallWorldTopology" -> SmallWorldBuildEdges(nodes, params, rng)

\* ir.get("nodes", [])
IRNodeGroups(ir) == IF ir.nodes.tag = "absent" THEN <<>> ELSE ir.nodes.v

\* ir.get("params", {}) or {}
IRParams(ir) == IF ir.params.tag = "dict" THEN ir.params.v ELSE <<>>

\* cls.default_params of a registered class, as it is now
RegistryDefaults(reg, cls) == (CHOOSE e \in Range(reg) : e.cls = cls).default_params

\* The params build_edges works with.  merge_params reads cls.default_params
\* at the call, so the merge is taken here over the registered class's
\* attribute; the merge the topology operators take over the declared defaults
\* then adds nothing to it.
CallParams(reg, ir) ==
    MergeParams(RegistryDefaults(reg, RegistryGet(reg, ir.topology[1])[1]), IRParams(ir))

\* what build(ir) returns or raises
BuildResult(reg, ir, rng, seed) ==
    IF ~ir.isDict THEN BuildError("ValueError", "IR must be a dict", <<>>)
    ELSE IF ir.topology = None \/ ir.topology = Some("")
    THEN BuildError("ValueError", "IR missing required field: topology", <<>>)
    ELSE IF ir.nodes.tag \notin {"absent", "list"}
    THEN BuildError("ValueError", "IR field nodes must be a list", <<>>)
    ELSE IF ir.params.tag = "other"
    THEN BuildError("ValueError", "IR field params must be a dict if present", <<>>)
    ELSE IF RegistryGet(reg, ir.topology[1]) = None
    THEN BuildError("ValueError", "Unsupported topology", RegistryNames(reg))
    ELSE LET flat_nodes == ExpandNodeInstances(IRNodeGroups(ir), seed)
             built == BuildEdges(RegistryGet(reg, ir.topology[1])[1], flat_nodes,
                                 CallParams(reg, ir), rng)
         IN  IF ~built.ok THEN BuildError(built.etype, "build_edges", <<>>)
             ELSE Returned(FinalGraph(flat_nodes, EnsureEdgeIds(built.edges)))

\* build(ir) gets as far as topo.build_edges, whose first statement is
\* merge_params
ReachesBuildEdges(reg, ir) ==
    /\ ir.isDict
    /\ ir.topology # None /\ ir.topology # Some("")
    /\ ir.nodes.tag \in {"absent", "list"}
    /\ ir.params.tag # "other"
    /\ RegistryGet(reg, ir.topology[1]) # None

\* the registry after build(ir)
BuildRegistry(reg, ir) ==
    IF ~ReachesBuildEdges(reg, ir) THEN reg
    ELSE [i \in 1..Len(reg) |->
            IF reg[i].cls = RegistryGet(reg, ir.topology[1])[1]
            THEN [reg[i] EXCEPT !.default_params = DefaultParamsAfterMerge(@, IRParams(ir))]
            ELSE reg[i]]

\* the IR object after build(ir): its own params dict is what build_edges got
BuildIR(reg, ir) ==
    IF ReachesBuildEdges(reg, ir) /\ ir.params.tag = "dict"
    THEN [ir EXCEPT !.params.v =
            ParamsAfterMerge(RegistryDefaults(reg, RegistryGet(reg, ir.topology[1])[1]), @)]
    ELSE ir

\* the random source after build(ir): only small_world draws from it, and it
\* does whenever its build_edges is reached, whether it returns or raises
BuildRng(reg, ir, rng, seed) ==
    IF ReachesBuildEdges(reg, ir)
       /\ RegistryGet(reg, ir.topology[1]) = Some("SmallWorldTopology")
    THEN SmallWorldBuild(ExpandNodeInstances(IRNodeGroups(ir), seed), CallParams(reg, ir), rng).rng
    ELSE rng

\* ------------------------------------------------------------------
\* The inputs: IRs, registration orders and random streams
\* ------------------------------------------------------------------
A == <<"a">>

B == <<"b">>

C == <<"c">>

ZZ == <<"z", "z">>

Teacher == Priority[3]

Student == Priority[4]

PlainGroup(id, count) == Group(Some(id), None, Some(count))

\* the node groups of the general IRs: two types with every count, a group
\* whose id is blank, a group with a label and no count, a group with no id,
\* and a non-dict entry
Groups ==
    {PlainGroup(id, c) : id \in {A, B}, c \in 0..MaxCount}
    \cup {PlainGroup(<<" ">>, 2), Group(Some(A), Some(<<"L">>), None),
          Group(None, Some(<<"L">>), Some(2)), NotADict}

NodeLists == SeqsUpTo(Groups, MaxGroups)

StarParams ==
    {<<>>} \cup {[center |-> c] : c \in {None, Some(A), Some(B), Some(InstanceId(A, 1)),
                                          Some(InstanceId(B, 2)), Some(ZZ)}}

\* a group whose id is the id of another group's first instance: the center
\* "a_1" is a node type and a node id
StarPriorityLists ==
    {<<PlainGroup(A, x), PlainGroup(InstanceId(A, 1), y)>> : x, y \in 1..2}
    \cup {<<PlainGroup(InstanceId(A, 1), y), PlainGroup(A, x)>> : x, y \in 1..2}

StarPriorityParams == {<<>>, [center |-> Some(InstanceId(A, 1))], [center |-> Some(InstanceId(A, 2))]}

PipelineKeys == {A, B, InstanceId(A, 1), InstanceId(B, 2)}

\* connection dicts: one item with up to two targets, or two one-target items
PipelineConnections ==
    {<<Connection(s, t)>> : s \in PipelineKeys, t \in SeqsUpTo(PipelineKeys, 1)}
    \cup {<<Connection(s, t)>> :
            s \in {A, InstanceId(A, 1)},
            t \in {<<B, B>>, <<B, InstanceId(B, 2)>>, <<InstanceId(B, 2), A>>}}
    \cup {<<Connection(s1, <<B>>), Connection(s2, <<t2>>)>> :
            s1 \in {A, InstanceId(A, 1)}, s2 \in {B, ZZ}, t2 \in {A, InstanceId(B, 2)}}

PipelineParams ==
    {<<>>, [connections |-> None], [connections |-> Some(<<>>)]}
    \cup {[connections |-> Some(c)] : c \in PipelineConnections}

BranchFactors ==
    {BFNone, BFInt(0), BFInt(1), BFInt(3), BFList(<<>>), BFList(<<1>>), BFList(<<2, 1>>)}

HierarchyLevelLists ==
    {None, Some(<<>>), Some(<<A, B>>), Some(<<B, A>>), Some(<<A, ZZ, B>>),
     Some(<<A, B, A>>), Some(<<A, A>>)}

HierarchyParams ==
    {<<>>, [levels |-> Some(<<A>>)], [levels |-> Some(<<A, B>>)], [branch_factor |-> BFInt(1)]}
    \cup {[levels |-> l, branch_factor |-> bf] : l \in HierarchyLevelLists, bf \in BranchFactors}

\* three declared levels over three types, each with 1..MaxTier instances
TierLists ==
    {<<PlainGroup(A, x), PlainGroup(B, y), PlainGroup(C, z)>> : x, y, z \in 1..MaxTier}

TierParams ==
    {[levels |-> Some(<<A, B, C>>)]}
    \cup {[levels |-> Some(<<A, B, C>>), branch_factor |-> bf] : bf \in BranchFactors}

\* levels inferred from the priority types
InferredLists ==
    {<<PlainGroup(t1, x)>> : t1 \in {Teacher, Student, A}, x \in 1..2}
    \cup {<<PlainGroup(t1, x), PlainGroup(t2, y)>> :
            t1 \in {Student, A}, t2 \in {Teacher, A}, x \in 1..2, y \in 1..MaxCount}

InferredParams ==
    {<<>>, [branch_factor |-> BFInt(1)], [branch_factor |-> BFList(<<3>>)],
     [branch_factor |-> BFNone]}

SmallWorldKs == 0..5

SmallWorldParams ==
    {<<>>, [rewiring_prob |-> Some(0)], [k |-> None], [rewiring_prob |-> None],
     [k |-> Some(1), rewiring_prob |-> None]}
    \cup {[node_type |-> t, k |-> Some(k), rewiring_prob |-> Some(0)] :
            t \in {None, Some(<<>>), Some(A), Some(ZZ)}, k \in {1, 2, 4}}

RingLists == {<<PlainGroup(A, n)>> : n \in 0..MaxRing}

RingParams ==
    {[node_type |-> t, k |-> Some(k), rewiring_prob |-> Some(0)] :
        t \in {None, Some(A)}, k \in SmallWorldKs}

RewiredLists ==
    {<<PlainGroup(A, n)>> : n \in 3..MaxRewired} \cup {<<PlainGroup(B, 1), PlainGroup(A, 3)>>}

RewiredParams ==
    {[k |-> Some(k), rewiring_prob |-> Some(p)] : k \in {2, 4}, p \in {50, 100}}
    \cup {[node_type |-> Some(A), k |-> Some(2), rewiring_prob |-> Some(50)],
          [k |-> Some(2), rewiring_prob |-> None]}

DictIR(name, groups, params) == IR(Some(name), NodesList(groups), ParamsDict(params))

\* IRs that fail validation, and IRs that leave optional fields out
ShapeIRs ==
    {NotADictIR}
    \cup {IR(t, NodesList(<<PlainGroup(A, 2)>>), ParamsAbsent) : t \in {None, Some("")}}
    \cup {IR(Some(t), n, p) :
            t \in {"star", "pipeline"},
            n \in {NodesAbsent, NodesOther, NodesList(<<PlainGroup(A, 1), PlainGroup(B, 2)>>)},
            p \in {ParamsAbsent, ParamsNone, ParamsFalsy, ParamsOther}}

UnregisteredNames == {"p2p", "mesh", "nonexistent"}

UnregisteredLists == SeqsUpTo({PlainGroup(A, 2), PlainGroup(B, 1)}, MaxGroups)

RngTapes == [1..RngPeriod -> 0..(RawLevels - 1)]

Rng(tape) == [tape |-> tape, pos |-> 0]

CanonicalLoad == <<HierarchyTopology, PipelineTopology, SmallWorldTopology, StarTopology>>

ZeroTape == [i \in 1..RngPeriod |-> 0]

\* ------------------------------------------------------------------
\* The state machine: one call of GraphBuilder.build
\* ------------------------------------------------------------------
VARIABLES
    topology_classes,   \* GraphBuilder._topology_classes, in registration order
    ir,                 \* the argument of build (the caller's object)
    rng,                \* the process-level random source
    pc,                 \* "ready" before the call, "done" after it
    result,             \* what the call returned or raised
    calls,              \* the finished calls: the IR given, the source before, the result
    workers,            \* the calls of the concurrent callers, each with its locals
    hash_seed           \* the string-hash secret of the running process

vars == <<topology_classes, ir, rng, pc, result, calls, workers, hash_seed>>

NoResult == [status |-> "none", graph |-> <<>>, etype |-> "", msg |-> "", available |-> <<>>]

Start(reg, i, r, h) ==
    /\ hash_seed = h
    /\ topology_classes = reg
    /\ ir = i
    /\ rng = r
    /\ pc = "ready"
    /\ result = NoResult
    /\ calls = <<>>
    /\ workers = <<>>

HashSeeds == 0..MaxHashSeed

\* a call whose IR reads neither the random stream nor the registry's names
StartPlain(name, lists, params) ==
    \E l \in lists, p \in params : Start(CanonicalLoad, DictIR(name, l, p), Rng(ZeroTape), 0)

\* Every IR under one registration order, one stream and one hash secret; the
\* IRs that read the stream under every stream; the IRs that read the
\* registry's names under every registration order; node lists under every
\* hash secret.
Init ==
    \/ StartPlain("star", NodeLists, StarParams)
    \/ StartPlain("star", StarPriorityLists, StarPriorityParams)
    \/ StartPlain("pipeline", NodeLists, PipelineParams)
    \/ StartPlain("hierarchy", NodeLists, HierarchyParams)
    \/ StartPlain("hierarchy", TierLists, TierParams)
    \/ StartPlain("hierarchy", InferredLists, InferredParams)
    \/ StartPlain("small_world", NodeLists, SmallWorldParams)
    \/ StartPlain("small_world", RingLists, RingParams)
    \/ \E l \in RewiredLists, p \in RewiredParams, t \in RngTapes :
         Start(CanonicalLoad, DictIR("small_world", l, p), Rng(t), 0)
    \/ \E i \in ShapeIRs : Start(CanonicalLoad, i, Rng(ZeroTape), 0)
    \/ \E reg \in LoadTopologies, t \in UnregisteredNames, l \in UnregisteredLists,
          p \in {ParamsAbsent, ParamsDict(<<>>)} :
         Start(reg, IR(Some(t), NodesList(l), p), Rng(ZeroTape), 0)
    \/ \E l \in NodeLists, h \in HashSeeds :
         Start(CanonicalLoad, DictIR("star", l, <<>>), Rng(ZeroTape), h)

Build ==
    /\ pc = "ready"
    /\ result' = BuildResult(topology_classes, ir, rng, hash_seed)
    /\ rng' = BuildRng(topology_classes, ir, rng, hash_seed)
    /\ topology_classes' = BuildRegistry(topology_classes, ir)
    /\ ir' = BuildIR(topology_classes, ir)
    /\ calls' = Append(calls, [ir |-> ir, rng |-> rng, result |-> result'])
    /\ pc' = "done"
    /\ UNCHANGED <<workers, hash_seed>>

Next == Build

Spec == Init /\ [][Next]_vars

\* ------------------------------------------------------------------
\* A session: calls of GraphBuilder.build one after another on one builder
\* ------------------------------------------------------------------
\* calls per session
MaxCalls == 2

\* IRs of every topology, some that fail in the validation and some that fail
\* inside build_edges
SessionIRs ==
    {DictIR("star", <<PlainGroup(A, 1), PlainGroup(B, 2)>>, <<>>),
     DictIR("star", <<PlainGroup(A, 1), PlainGroup(B, 2)>>, [center |-> Some(InstanceId(B, 2))]),
     DictIR("pipeline", <<PlainGroup(A, 2)>>, [connections |-> Some(<<Connection(A, <<A>>)>>)]),
     DictIR("hierarchy", <<PlainGroup(A, 2), PlainGroup(B, 3)>>,
            [levels |-> Some(<<A, B>>), branch_factor |-> BFInt(1)]),
     DictIR("small_world", <<PlainGroup(A, 3)>>, [k |-> Some(2), rewiring_prob |-> Some(50)]),
     DictIR("small_world", <<PlainGroup(A, 3)>>, [rewiring_prob |-> None]),
     DictIR("small_world", <<PlainGroup(A, 3)>>, [k |-> None]),
     IR(Some("p2p"), NodesList(<<PlainGroup(A, 2)>>), ParamsAbsent),
     NotADictIR}

InitSession == \E i \in SessionIRs, t \in RngTapes : Start(CanonicalLoad, i, Rng(t), 0)

\* the caller hands the builder its next IR
Submit ==
    /\ pc = "done"
    /\ Len(calls) < MaxCalls
    /\ \E i \in SessionIRs : ir' = i
    /\ pc' = "ready"
    /\ result' = NoResult
    /\ UNCHANGED <<topology_classes, rng, calls, workers, hash_seed>>

NextSession == Build \/ Submit

SpecSession == InitSession /\ [][NextSession]_vars

\* ------------------------------------------------------------------
\* Process runs: calls of GraphBuilder.build in one process and in the next
\* ------------------------------------------------------------------
RestartIRs ==
    {DictIR("star", <<PlainGroup(A, 2), PlainGroup(B, 1)>>, <<>>),
     DictIR("pipeline", <<PlainGroup(A, 1), PlainGroup(C, 1)>>, <<>>),
     DictIR("hierarchy", <<PlainGroup(Teacher, 1), PlainGroup(Student, 2)>>, <<>>),
     DictIR("small_world", <<PlainGroup(B, 3)>>, [k |-> Some(2), rewiring_prob |-> Some(50)])}

ProcessTapes == {ZeroTape, [i \in 1..RngPeriod |-> i % RawLevels]}

InitProcesses ==
    \E i \in RestartIRs, t \in ProcessTapes, h \in HashSeeds :
        Start(CanonicalLoad, i, Rng(t), h)

\* the same process builds its next IR
SubmitNext ==
    /\ pc = "done"
    /\ Len(calls) < MaxCalls
    /\ \E i \in RestartIRs : ir' = i
    /\ pc' = "ready"
    /\ result' = NoResult
    /\ UNCHANGED <<topology_classes, rng, calls, workers, hash_seed>>

\* The process ends and a new one starts: the interpreter draws a new hash
\* secret and seeds the random source anew, VisualizationManager constructs a
\* new GraphBuilder, which loads the registry, and the first IR arrives.
\* calls keeps what the earlier process returned to its caller.
Restart ==
    /\ pc = "done"
    /\ Len(calls) < MaxCalls
    /\ \E h \in HashSeeds : hash_seed' = h
    /\ \E t \in ProcessTapes : rng' = Rng(t)
    /\ topology_classes' = CanonicalLoad
    /\ \E i \in RestartIRs : ir' = i
    /\ pc' = "ready"
    /\ result' = NoResult
    /\ UNCHANGED <<calls, workers>>

NextProcesses == Build \/ SubmitNext \/ Restart

SpecProcesses == InitProcesses /\ [][NextProcesses]_vars

\* ------------------------------------------------------------------
\* Two callers of GraphBuilder.build on one builder, interleaved
\* ------------------------------------------------------------------
\* A call is cut where it reads or writes what the callers share: the registry
\* (self._topology_classes.get), the class attributes (merge_params) and the
\* random source (each random.random() and each random.choice()).  What lies
\* between two such points works on the call's locals only.
Worker(i) ==
    [ir |-> i, pc |-> "start", topo_cls |-> "", flat_nodes |-> <<>>, edges |-> <<>>,
     node_ids |-> <<>>, half |-> 0, prob |-> None, a |-> 0, result |-> NoResult]

ConcurrentIRs ==
    {DictIR("star", <<PlainGroup(A, 1), PlainGroup(B, 2)>>, <<>>),
     DictIR("star", <<PlainGroup(A, 1), PlainGroup(B, 2)>>, [center |-> Some(InstanceId(B, 2))]),
     DictIR("pipeline", <<PlainGroup(A, 1), PlainGroup(B, 2)>>,
            [connections |-> Some(<<Connection(A, <<B>>)>>)]),
     DictIR("pipeline", <<PlainGroup(A, 2)>>, [connections |-> Some(<<Connection(A, <<A>>)>>)]),
     DictIR("hierarchy", <<PlainGroup(A, 2), PlainGroup(B, 3)>>,
            [levels |-> Some(<<A, B>>), branch_factor |-> BFInt(1)]),
     DictIR("small_world", <<PlainGroup(A, 3)>>, [k |-> Some(2), rewiring_prob |-> Some(50)]),
     DictIR("small_world", <<PlainGroup(A, 3)>>, [rewiring_prob |-> None]),
     IR(Some("p2p"), NodesList(<<PlainGroup(A, 2)>>), ParamsAbsent)}

ConcurrentTapes == {ZeroTape, [i \in 1..RngPeriod |-> i % RawLevels]}

InitConcurrent ==
    \E i1, i2 \in ConcurrentIRs, t \in ConcurrentTapes :
        /\ hash_seed = 0
        /\ topology_classes = CanonicalLoad
        /\ rng = Rng(t)
        /\ workers = <<Worker(i1), Worker(i2)>>
        /\ ir = NotADictIR
        /\ pc = "concurrent"
        /\ result = NoResult
        /\ calls = <<>>

\* lines 85-107: the shape checks and the registry lookup
Validate(w) ==
    /\ workers[w].pc = "start"
    /\ LET wk == workers[w]
       IN  workers' = [workers EXCEPT ![w] =
             IF ReachesBuildEdges(topology_classes, wk.ir)
             THEN [wk EXCEPT !.topo_cls = RegistryGet(topology_classes, wk.ir.topology[1])[1],
                             !.pc = "expand"]
             ELSE [wk EXCEPT !.result = BuildResult(topology_classes, wk.ir, rng, hash_seed),
                             !.pc = "done"]]
    /\ UNCHANGED <<topology_classes, ir, rng, pc, result, calls, hash_seed>>

\* line 110
Expand(w) ==
    /\ workers[w].pc = "expand"
    /\ LET wk == workers[w]
       IN  workers' = [workers EXCEPT ![w] =
             [wk EXCEPT !.flat_nodes = ExpandNodeInstances(IRNodeGroups(wk.ir), hash_seed),
                        !.pc = "edges"]]
    /\ UNCHANGED <<topology_classes, ir, rng, pc, result, calls, hash_seed>>

\* small_world's build_edges up to its loops (lines 102-130)
SmallWorldEnter(wk, merged) ==
    LET node_ids == SmallWorldNodeIds(NodeIds(wk.flat_nodes), merged.node_type)
        n == Len(node_ids)
    IN  IF n < 3 THEN [wk EXCEPT !.pc = "ids"]
        ELSE IF merged.k = None
        THEN [wk EXCEPT !.result = BuildError("TypeError", "build_edges", <<>>), !.pc = "done"]
        ELSE IF SmallWorldK(merged.k[1], n) \div 2 < 1 THEN [wk EXCEPT !.pc = "ids"]
        ELSE [wk EXCEPT !.node_ids = node_ids, !.half = SmallWorldK(merged.k[1], n) \div 2,
                        !.prob = merged.rewiring_prob, !.pc = "loop"]

\* line 114: build_edges begins with merge_params, which reads the class
\* attribute; star, pipeline and hierarchy then work on locals to their end
EnterBuildEdges(w) ==
    /\ workers[w].pc = "edges"
    /\ LET wk == workers[w]
           merged == CallParams(topology_classes, wk.ir)
           built == BuildEdges(wk.topo_cls, wk.flat_nodes, merged, rng)
       IN  workers' = [workers EXCEPT ![w] =
             IF wk.topo_cls = "SmallWorldTopology" THEN SmallWorldEnter(wk, merged)
             ELSE IF built.ok THEN [wk EXCEPT !.edges = built.edges, !.pc = "ids"]
             ELSE [wk EXCEPT !.result = BuildError(built.etype, "build_edges", <<>>),
                             !.pc = "done"]]
    /\ topology_classes' = BuildRegistry(topology_classes, workers[w].ir)
    /\ UNCHANGED <<ir, rng, pc, result, calls, hash_seed>>

\* the worker after attempt a of the loops, its edge list being es
AfterAttempt(wk, es) ==
    [wk EXCEPT !.edges = es, !.a = @ + 1,
               !.pc = IF wk.a + 1 >= Len(wk.node_ids) * wk.half THEN "ids" ELSE "loop"]

\* lines 136-141: one attempt up to random.random() < rewiring_prob
Attempt(w) ==
    /\ workers[w].pc = "loop"
    /\ LET wk == workers[w]
           n == Len(wk.node_ids)
           i == wk.a \div wk.half
           j == (wk.a % wk.half) + 1
       IN  workers' = [workers EXCEPT ![w] =
             IF wk.prob = None
             THEN [wk EXCEPT !.result = BuildError("TypeError", "build_edges", <<>>),
                             !.pc = "done"]
             ELSE IF RandomBelow(rng, wk.prob[1]) THEN [wk EXCEPT !.pc = "choice"]
             ELSE AfterAttempt(wk, Append(wk.edges,
                                          Edge(wk.node_ids[i + 1], wk.node_ids[((i + j) % n) + 1])))]
    /\ rng' = RngAdvance(rng)
    /\ UNCHANGED <<topology_classes, ir, pc, result, calls, hash_seed>>

\* lines 142-151: the rewired target, dropped when it is the source
Choice(w) ==
    /\ workers[w].pc = "choice"
    /\ LET wk == workers[w]
           src == wk.node_ids[(wk.a \div wk.half) + 1]
           tgt == RandomChoice(rng, wk.node_ids)
       IN  workers' = [workers EXCEPT ![w] =
             AfterAttempt(wk, IF tgt = src THEN wk.edges ELSE Append(wk.edges, Edge(src, tgt)))]
    /\ rng' = RngAdvance(rng)
    /\ UNCHANGED <<topology_classes, ir, pc, result, calls, hash_seed>>

\* lines 117-121
Finish(w) ==
    /\ workers[w].pc = "ids"
    /\ LET wk == workers[w]
       IN  workers' = [workers EXCEPT ![w] =
             [wk EXCEPT !.result = Returned(FinalGraph(wk.flat_nodes, EnsureEdgeIds(wk.edges))),
                        !.pc = "done"]]
    /\ UNCHANGED <<topology_classes, ir, rng, pc, result, calls, hash_seed>>

NextConcurrent ==
    \E w \in DOMAIN workers :
        \/ Validate(w)
        \/ Expand(w)
        \/ EnterBuildEdges(w)
        \/ Attempt(w)
        \/ Choice(w)
        \/ Finish(w)

SpecConcurrent == InitConcurrent /\ [][NextConcurrent]_vars

\* ------------------------------------------------------------------
\* Reading a finished call
\* ------------------------------------------------------------------
Done == pc = "done"

Succeeded == pc = "done" /\ result.status = "ok"

Failed == pc = "done" /\ result.status = "error"

OutNodes == SelectSeq(result.graph, LAMBDA e : e.kind = "node")

OutEdges == SelectSeq(result.graph, LAMBDA e : e.kind = "edge")

OutIds == [i \in 1..Len(OutNodes) |-> OutNodes[i].id]

Distinct(s) == \A i, j \in 1..Len(s) : s[i] = s[j] => i = j

\* how many positions of s hold x
Occurrences(s, x) == Cardinality({i \in 1..Len(s) : s[i] = x})

\* the position of x in a sequence that holds it once
PosIn(s, x) == CHOOSE i \in 1..Len(s) : s[i] = x

TopologyIs(name) == ir.isDict /\ ir.topology = Some(name)

\* the IR's params as build hands them to the topology
GivenParams == IRParams(ir)

\* the node groups of the IR are dicts that carry a non-blank id, unique among
\* the groups, and a count >= 0 (the NodeGroup of the data model)
WellFormedGroups ==
    /\ ir.isDict /\ ir.nodes.tag = "list"
    /\ \A i \in 1..Len(ir.nodes.v) :
        LET g == ir.nodes.v[i]
        IN  /\ g.isDict /\ g.id # None /\ g.count # None
            /\ Strip(g.id[1]) # <<>>
            /\ g.count[1] >= 0
            /\ \A j \in 1..Len(ir.nodes.v) :
                 (ir.nodes.v[j].isDict /\ ir.nodes.v[j].id = g.id) => i = j

\* every group asks for at least one instance
CountsPositive ==
    \A i \in 1..Len(ir.nodes.v) : ir.nodes.v[i].count # None /\ ir.nodes.v[i].count[1] >= 1

RECURSIVE SumCounts(_)
SumCounts(groups) ==
    IF groups = <<>> THEN 0 ELSE Head(groups).count[1] + SumCounts(Tail(groups))

\* ------------------------------------------------------------------
\* C1
\* ------------------------------------------------------------------
\* C1: for every list of node groups (each with an id and a count >= 0) a
\* successful synthesis holds exactly sum(count) flat nodes, and the id
\* "{groupId}_{i}" appears exactly once for every i in 1..count; a group with
\* count 0 contributes no node.
C1_ExpansionMatchesCounts ==
    (Succeeded /\ WellFormedGroups) =>
        /\ Len(OutNodes) = SumCounts(ir.nodes.v)
        /\ \A g \in 1..Len(ir.nodes.v) : \A i \in 1..ir.nodes.v[g].count[1] :
             Occurrences(OutIds, InstanceId(ir.nodes.v[g].id[1], i)) = 1

\* ------------------------------------------------------------------
\* C2
\* ------------------------------------------------------------------
\* C2: in every graph a successful call returns, whatever the topology and the
\* params, the source and the target of every edge are ids of flat nodes of the
\* same graph.
C2_EdgesReferenceNodes ==
    Succeeded =>
        \A i \in 1..Len(OutEdges) :
            OutEdges[i].source \in Range(OutIds) /\ OutEdges[i].target \in Range(OutIds)

\* a star whose center was given as a node type, with an edge to each other node
C2_Witness ==
    /\ Succeeded /\ TopologyIs("star")
    /\ ParamGet(GivenParams, "center") = Some(A)
    /\ Len(OutEdges) >= 2
    /\ OutEdges[1].source = InstanceId(A, 1)

\* ------------------------------------------------------------------
\* C3
\* ------------------------------------------------------------------
\* C3: star over N >= 1 flat nodes with distinct ids returns exactly N - 1
\* edges; some node (the center) is an endpoint of every edge, so no edge joins
\* two non-center nodes, and every other node is an endpoint of exactly one
\* edge.
C3_StarShape ==
    (Succeeded /\ TopologyIs("star") /\ Len(OutNodes) >= 1 /\ Distinct(OutIds)) =>
        /\ Len(OutEdges) = Len(OutNodes) - 1
        /\ \E c \in Range(OutIds) :
            /\ \A i \in 1..Len(OutEdges) : OutEdges[i].source = c \/ OutEdges[i].target = c
            /\ \A n \in Range(OutIds) \ {c} :
                 Cardinality({i \in 1..Len(OutEdges) :
                                OutEdges[i].source = n \/ OutEdges[i].target = n}) = 1

\* a star over two types and at least four distinct nodes, center inferred
C3_Witness ==
    /\ Succeeded /\ TopologyIs("star") /\ Distinct(OutIds)
    /\ Len(OutNodes) >= 4 /\ Len(OutEdges) = Len(OutNodes) - 1
    /\ ParamGet(GivenParams, "center") = None
    /\ OutEdges[1].source = InstanceId(B, 1)

\* ------------------------------------------------------------------
\* C4
\* ------------------------------------------------------------------
\* params.connections is absent, None or an empty dict
NoConnections ==
    ParamGet(GivenParams, "connections") = None \/ ParamGet(GivenParams, "connections") = Some(<<>>)

\* C4: pipeline without params.connections (absent, None or empty) returns,
\* for the flat nodes n_0..n_{N-1} in input order, exactly the edges
\* n_0->n_1, ..., n_{N-2}->n_{N-1} in that order, and none when N < 2.
C4_PipelineChain ==
    (Done /\ TopologyIs("pipeline") /\ NoConnections /\ ir.nodes.tag # "other" /\ ir.params.tag # "other") =>
        /\ Succeeded
        /\ Len(OutEdges) = (IF Len(OutNodes) < 2 THEN 0 ELSE Len(OutNodes) - 1)
        /\ \A i \in 1..Len(OutEdges) :
             OutEdges[i].source = OutIds[i] /\ OutEdges[i].target = OutIds[i + 1]

\* a chain over at least three nodes when connections is an empty dict
C4_Witness ==
    /\ Succeeded /\ TopologyIs("pipeline")
    /\ ParamGet(GivenParams, "connections") = Some(<<>>)
    /\ Len(OutNodes) >= 3 /\ Len(OutEdges) = Len(OutNodes) - 1

\* ------------------------------------------------------------------
\* C5
\* ------------------------------------------------------------------
\* the flat nodes the call expands, whether or not it succeeds
InputIds == NodeIds(ExpandNodeInstances(IRNodeGroups(ir), hash_seed))

\* C5: pipeline with params.connections, over a node list of any size (a
\* single node included): when a source key and a target key resolve to a pair
\* (src, tgt) with index(tgt) <= index(src), the call fails with a validation
\* error and returns no edges.
C5_BackwardPairFails ==
    (Done /\ TopologyIs("pipeline") /\ WellFormedGroups /\ CountsPositive /\ ~NoConnections
       /\ \E c \in Range(ParamGet(GivenParams, "connections")[1]) : \E t \in Range(c.tgts) :
            \E src \in Range(PipelineResolve(InputIds, c.src)) :
              \E tgt \in Range(PipelineResolve(InputIds, t)) :
                LastIndex(InputIds, tgt) <= LastIndex(InputIds, src))
    => (Failed /\ result.etype = "ValueError")

UsedLevels == HierarchyLevels(OutIds, ParamGet(GivenParams, "levels"))

NodesOfType(t) == SelectSeq(OutIds, LAMBDA nid : RSplitBase(nid) = t)

\* the hierarchy has at least two levels and exactly one level-0 node, and the
\* flat nodes' ids are distinct
SingleRoot ==
    /\ Succeeded /\ TopologyIs("hierarchy") /\ Distinct(OutIds)
    /\ Len(UsedLevels) >= 2
    /\ Len(NodesOfType(UsedLevels[1])) = 1

\* C7: hierarchy with a single level-0 node r (over flat nodes with distinct
\* ids) returns exactly one edge r->c for every level-1 node c whatever the
\* branch factor, and with two levels these
\* are the only edges: as many edges as level-1 nodes, each from r to a
\* level-1 node, so none between two level-1 nodes.
C7_SingleRootReachesAll ==
    SingleRoot =>
        LET r == NodesOfType(UsedLevels[1])[1]
            level1 == NodesOfType(UsedLevels[2])
        IN  /\ \A c \in Range(level1) :
                 Cardinality({i \in 1..Len(OutEdges) :
                                OutEdges[i].source = r /\ OutEdges[i].target = c}) = 1
            /\ Len(UsedLevels) = 2 =>
                 /\ Len(OutEdges) = Len(level1)
                 /\ \A i \in 1..Len(OutEdges) :
                      OutEdges[i].source = r /\ OutEdges[i].target \in Range(level1)

\* one root and three children under a branch factor of 1
C7_Witness ==
    /\ SingleRoot /\ Len(UsedLevels) = 2
    /\ GivenParams = [levels |-> Some(<<A, B>>), branch_factor |-> BFList(<<1>>)]
    /\ Len(NodesOfType(B)) = 3
    /\ Len(OutEdges) = 3

\* ------------------------------------------------------------------
\* C8
\* ------------------------------------------------------------------
UsedSmallWorld == MergeParams(SmallWorldDefaultParams, GivenParams)

\* the eligible nodes: those of params.node_type when one is named, else all
Eligible ==
    IF UsedSmallWorld.node_type = None \/ UsedSmallWorld.node_type = Some(<<>>) THEN OutIds
    ELSE NodesOfType(UsedSmallWorld.node_type[1])

\* min(k, N - 1) rounded down to an even number
EvenK(k, n) ==
    LET m == IF k < n - 1 THEN k ELSE n - 1
    IN  m - (m % 2)

\* C8: small_world with rewiring_prob = 0.0 over the eligible nodes
\* e_0..e_{N-1}: no edge when N < 3; otherwise, with k' = min(k, N - 1)
\* rounded down to even, the edges are exactly e_i -> e_{(i+j) mod N} for every
\* i in 0..N-1 and j in 1..k'/2, N * (k'/2) of them.
C8_RingLattice ==
    (Done /\ TopologyIs("small_world") /\ ir.nodes.tag = "list" /\ ir.params.tag = "dict"
       /\ UsedSmallWorld.rewiring_prob = Some(0)
       /\ UsedSmallWorld.k # None /\ UsedSmallWorld.k[1] >= 0) =>
        LET n == Len(Eligible)
            half == EvenK(UsedSmallWorld.k[1], n) \div 2
        IN  /\ Succeeded
            /\ n < 3 => OutEdges = <<>>
            /\ n >= 3 =>
                 /\ Len(OutEdges) = n * half
                 /\ \A i \in 0..(n - 1) : \A j \in 1..half :
                      LET e == OutEdges[i * half + j]
                      IN  e.source = Eligible[i + 1] /\ e.target = Eligible[((i + j) % n) + 1]

\* k = 4 over ten nodes of one type: twenty edges
C8_Witness ==
    /\ Succeeded /\ TopologyIs("small_world")
    /\ GivenParams = [node_type |-> Some(A), k |-> Some(4), rewiring_prob |-> Some(0)]
    /\ Len(Eligible) = 10
    /\ Len(OutEdges) = 20

\* ------------------------------------------------------------------
\* C9
\* ------------------------------------------------------------------
\* C9: synthesizing an IR whose topology is the full mesh ("p2p") over N flat
\* nodes succeeds and returns N * (N - 1) / 2 edges, one edge i->j (i < j in
\* input order) for every unordered pair of nodes.
C9_FullMesh ==
    (Done /\ TopologyIs("p2p") /\ WellFormedGroups /\ CountsPositive) =>
        /\ Succeeded
        /\ Len(OutEdges) = (Len(OutNodes) * (Len(OutNodes) - 1)) \div 2
        /\ \A i, j \in 1..Len(OutNodes) :
             i < j => Cardinality({e \in 1..Len(OutEdges) :
                                     OutEdges[e].source = OutIds[i]
                                     /\ OutEdges[e].target = OutIds[j]}) = 1

\* ------------------------------------------------------------------
\* C10
\* ------------------------------------------------------------------
RegisteredNames == {topology_classes[i].name : i \in 1..Len(topology_classes)}

\* the IR passes the shape checks that precede the registry lookup
ShapeAccepted ==
    /\ ir.isDict
    /\ ir.topology # None /\ ir.topology # Some("")
    /\ ir.nodes.tag \in {"absent", "list"}
    /\ ir.params.tag # "other"

\* C10: synthesizing an IR whose topology name is not in the registry fails
\* with an error that lists the registered topology names; no graph is
\* returned, no other topology stands in.
C10_UnsupportedTopology ==
    (Done /\ ShapeAccepted /\ ir.topology[1] \notin RegisteredNames) =>
        /\ Failed
        /\ result.etype = "ValueError"
        /\ result.msg = "Unsupported topology"
        /\ Len(result.available) = Len(topology_classes)
        /\ \A i \in 1..Len(topology_classes) : result.available[i] = topology_classes[i].name
        /\ Range(result.available) = {"star", "pipeline", "hierarchy", "small_world"}
        /\ result.graph = <<>>

\* "nonexistent" over a non-empty node list, the registry loaded star first
C10_Witness ==
    /\ Failed /\ TopologyIs("nonexistent")
    /\ ir.nodes.tag = "list" /\ ir.nodes.v # <<>>
    /\ topology_classes[1].name = "star"
    /\ result.available[1] = "star"
    /\ Len(result.available) = 4

\* ------------------------------------------------------------------
\* C11
\* ------------------------------------------------------------------
\* the IR as the caller gave it to the call that finished
GivenIR == calls[Len(calls)].ir

\* the IR breaks a shape rule: it is no object, topology is missing or empty,
\* nodes is present and no list, or params is present and no object (a falsy
\* value such as [], "" or 0 included)
ShapeBroken ==
    \/ ~GivenIR.isDict
    \/ GivenIR.topology = None \/ GivenIR.topology = Some("")
    \/ GivenIR.nodes.tag = "other"
    \/ GivenIR.params.tag \in {"falsy", "other"}

\* C11: a call whose IR is not an object, has no or an empty topology, has a
\* nodes value that is no list, or has a params value that is no object (an
\* empty list, an empty string or 0 included) fails with an error and returns
\* no graph.
C11_ShapeValidation ==
    (Done /\ ShapeBroken) => (Failed /\ result.graph = <<>>)

\* ------------------------------------------------------------------
\* C12
\* ------------------------------------------------------------------
\* the IR has no nodes field, or a node group that lacks id or count
FieldMissing ==
    \/ GivenIR.nodes.tag = "absent"
    \/ /\ GivenIR.nodes.tag = "list"
       /\ \E i \in 1..Len(GivenIR.nodes.v) :
            /\ GivenIR.nodes.v[i].isDict
            /\ GivenIR.nodes.v[i].id = None \/ GivenIR.nodes.v[i].count = None

\* C12: a call whose IR has no nodes field, or holds a node group without id or
\* without count, fails with an error: no graph is returned, the field is not
\* defaulted and the group is not dropped.
C12_MissingFieldsFail ==
    (Done /\ GivenIR.isDict /\ GivenIR.topology # None /\ GivenIR.topology # Some("")
       /\ FieldMissing)
    => (Failed /\ result.graph = <<>>)

\* ------------------------------------------------------------------
\* C13
\* ------------------------------------------------------------------
OutEdgeIds == [i \in 1..Len(OutEdges) |-> OutEdges[i].id]

\* C13: in every graph one call returns every edge carries a non-empty id and
\* the edge ids are pairwise distinct, also when several edges join the same
\* (source, target) pair.
C13_EdgeIdsUnique ==
    Succeeded =>
        /\ \A i \in 1..Len(OutEdges) : OutEdges[i].id # <<>>
        /\ Distinct(OutEdgeIds)

\* a pipeline whose connections name the same target twice: two edges a_1->b_1
C13_Witness ==
    /\ Succeeded /\ TopologyIs("pipeline")
    /\ \E i, j \in 1..Len(OutEdges) :
         /\ i # j
         /\ OutEdges[i].source = OutEdges[j].source
         /\ OutEdges[i].target = OutEdges[j].target

\* ------------------------------------------------------------------
\* C15
\* ------------------------------------------------------------------
\* C15: once the registry is loaded, every registered topology definition has
\* a non-empty name, a non-empty description, a params_schema and an example IR
\* that holds "nodes" and whose "topology" is the definition's name (a
\* definition that breaks this is not registered).
C15_RegisteredPassSanityCheck ==
    \A i \in 1..Len(topology_classes) : SanityCheck(topology_classes[i])

\* ------------------------------------------------------------------
\* C16
\* ------------------------------------------------------------------
\* the class a name is registered for, with the attributes it declares
DeclaredClass(name) == CHOOSE c \in TopologyClasses : c.name = name

\* C16: the params a topology works with are its default_params overlaid with
\* the IR's params: every key the IR gives keeps the IR's value (None or falsy
\* included), every other default key keeps its default, no other key appears;
\* and after the call the topology's default_params and the IR's params are
\* what they were.
C16_MergeParams ==
    (Done /\ ReachesBuildEdges(topology_classes, GivenIR)) =>
        LET defaults == DeclaredClass(GivenIR.topology[1]).default_params
            given == IRParams(GivenIR)
            merged == CallParams(topology_classes, GivenIR)
        IN  /\ DOMAIN merged = (DOMAIN defaults) \cup (DOMAIN given)
            /\ \A key \in DOMAIN given : merged[key] = given[key]
            /\ \A key \in (DOMAIN defaults) \ (DOMAIN given) : merged[key] = defaults[key]
            /\ RegistryDefaults(topology_classes, DeclaredClass(GivenIR.topology[1]).cls) = defaults
            /\ ir = GivenIR

\* a hierarchy whose IR gives branch_factor as None and leaves levels out
C16_Witness ==
    /\ Succeeded /\ TopologyIs("hierarchy")
    /\ GivenParams = [branch_factor |-> BFNone]
    /\ CallParams(topology_classes, GivenIR) = [levels |-> None, branch_factor |-> BFNone]
    /\ Len(OutEdges) >= 2

\* ------------------------------------------------------------------
\* C18
\* ------------------------------------------------------------------
\* the ids "{type}_1" .. "{type}_n" of the n flat nodes of a type
InstancesOfType(t) ==
    [i \in 1..Cardinality({p \in 1..Len(OutNodes) : OutNodes[p].type = t}) |-> InstanceId(t, i)]

\* the edges the topology produced for the flat nodes of the call
ProducedEdges ==
    BuildEdges(RegistryGet(topology_classes, GivenIR.topology[1])[1], OutNodes,
               CallParams(topology_classes, GivenIR), calls[Len(calls)].rng).edges

\* C18: the returned graph is the flat nodes followed by the edges: every node
\* precedes every edge; the nodes come in group order and, within a group, by
\* instance index 1, 2, ...; the edges come in the order the topology produced
\* them.
C18_NodesThenEdges ==
    Succeeded =>
        LET out_edges == OutEdges
        IN  /\ result.graph = OutNodes \o out_edges
            /\ WellFormedGroups =>
                 OutIds = Concat([g \in 1..Len(GivenIR.nodes.v) |->
                                    InstancesOfType(Strip(GivenIR.nodes.v[g].id[1]))])
            /\ [i \in 1..Len(out_edges) |-> Edge(out_edges[i].source, out_edges[i].target)]
                 = ProducedEdges

\* two groups, five nodes and a chain of four edges behind them
C18_Witness ==
    /\ Succeeded /\ TopologyIs("pipeline") /\ WellFormedGroups
    /\ Len(GivenIR.nodes.v) = 2
    /\ Len(OutNodes) = 5 /\ Len(OutEdges) = 4
    /\ result.graph[5].kind = "node" /\ result.graph[6].kind = "edge"
    /\ OutIds[3] = InstanceId(B, 1)

\* ------------------------------------------------------------------
\* C20
\* ------------------------------------------------------------------
\* params.center is given and is neither a type nor an id of the flat nodes
StarCenterUnresolvable ==
    /\ TopologyIs("star")
    /\ ParamGet(GivenParams, "center") # None
    /\ ParamGet(GivenParams, "center")[1] \notin Range(TypeOrder(InputIds)) \cup Range(InputIds)

\* params.levels is given and none of its names is the type of a flat node
HierarchyLevelsUnresolvable ==
    /\ TopologyIs("hierarchy")
    /\ ParamGet(GivenParams, "levels") # None
    /\ ParamGet(GivenParams, "levels") # Some(<<>>)
    /\ \A l \in Range(ParamGet(GivenParams, "levels")[1]) : l \notin Range(TypeOrder(InputIds))

\* C20: a star whose params.center is given and matches neither a node type
\* nor a node id, or a hierarchy whose declared levels name no existing node
\* type, fails with an error: no other center or root is chosen and no
\* edgeless graph is returned.
C20_UnresolvableFails ==
    (Done /\ WellFormedGroups /\ CountsPositive /\ GivenIR.nodes.v # <<>>
       /\ ir.params.tag = "dict"
       /\ (StarCenterUnresolvable \/ HierarchyLevelsUnresolvable))
    => Failed

C17_CallsLeaveNoTrace ==
    /\ topology_classes = CanonicalLoad
    /\ pc = "done" => ir = GivenIR
    /\ \A j \in 2..Len(calls) :
         (calls[j - 1].result.status = "error" /\ calls[j].result.status = "ok") =>
             calls[j].result = BuildResult(CanonicalLoad, calls[j].ir, calls[j - 1].rng, hash_seed)

\* ------------------------------------------------------------------
\* C19
\* ------------------------------------------------------------------
\* what a call with this IR returns when it runs alone on the builder
Alone(i) == BuildResult(CanonicalLoad, i, Rng(ZeroTape), hash_seed)

\* C19: under every interleaving of two calls on one builder, a call whose
\* topology is not small_world returns exactly what it returns when it runs
\* alone, whatever the other call is.
C19_ConcurrentCallsIndependent ==
    \A w \in DOMAIN workers :
        (workers[w].pc = "done" /\ workers[w].ir.topology # Some("small_world")) =>
            workers[w].result = Alone(workers[w].ir)

\* the second caller's star has returned while the first caller's star, with
\* another center, has expanded its nodes and not yet built its edges
C19_Witness ==
    /\ workers # <<>>
    /\ workers[1].ir.topology = Some("star") /\ workers[2].ir.topology = Some("star")
    /\ workers[1].ir # workers[2].ir
    /\ workers[1].pc = "edges"
    /\ workers[2].pc = "done" /\ workers[2].result.status = "ok"

\* ------------------------------------------------------------------
\* C21
\* ------------------------------------------------------------------
\* the flat nodes returned by the finished calls, of this process run and of
\* the earlier ones
ReturnedNodes ==
    UNION {{e \in Range(calls[j].result.graph) : e.kind = "node"} : j \in 1..Len(calls)}

\* C21: node color is a function of the node type only: all flat nodes of the
\* same type get the same color, that color is one of the ten palette
\* entries, and the same type receives the same color in every call,
\* including calls made in different process runs.
C21_ColorByTypeOnly ==
    \A n1, n2 \in ReturnedNodes :
        /\ n1.color \in Range(Palette)
        /\ n1.type = n2.type => n1.color = n2.color

\* ------------------------------------------------------------------
\* C22
\* ------------------------------------------------------------------
\* the returned nodes of type t, in input order
OutNodesOfType(t) == SelectSeq(OutNodes, LAMBDA n : n.type = t)

\* the center the priority (a), (b), (c), (d) names for the given center
ExpectedCenter ==
    LET center == ParamGet(GivenParams, "center")
        single == {i \in 1..Len(OutNodes) : Len(OutNodesOfType(OutNodes[i].type)) = 1}
    IN  IF center # None /\ OutNodesOfType(center[1]) # <<>>
        THEN OutNodesOfType(center[1])[1].id
        ELSE IF center # None /\ center[1] \in Range(OutIds)
        THEN center[1]
        ELSE IF single # {}
        THEN OutNodes[CHOOSE i \in single : \A j \in single : i <= j].id
        ELSE OutNodes[1].id

\* C22: the star center follows a fixed priority: (a) if params.center equals
\* a node type, the first instance of that type; (b) else if it equals a node
\* id, that node; (c) else the single instance of the first node type, in
\* input order, that has exactly one instance; (d) else the first node.  One
\* center is chosen: every edge has it as source and every other node is the
\* target of an edge.
C22_StarCenterPriority ==
    (Succeeded /\ TopologyIs("star") /\ Len(OutNodes) >= 1) =>
        LET out_edges == OutEdges
            center == ExpectedCenter
        IN  /\ \A i \in 1..Len(out_edges) : out_edges[i].source = center
            /\ {out_edges[i].target : i \in 1..Len(out_edges)} = Range(OutIds) \ {center}

\* params.center "a_1" is the type of the nodes a_1_1, a_1_2 and the id of the
\* first node of type a: the hub is a_1_1
C22_Witness ==
    /\ Succeeded /\ TopologyIs("star")
    /\ ParamGet(GivenParams, "center") = Some(InstanceId(A, 1))
    /\ InstanceId(A, 1) \in Range(OutIds)
    /\ Len(OutNodesOfType(InstanceId(A, 1))) = 2
    /\ Len(OutEdges) = Len(OutNodes) - 1
    /\ OutEdges[1].source = InstanceId(InstanceId(A, 1), 1)

\* ------------------------------------------------------------------
\* C23
\* ------------------------------------------------------------------
\* a returned hierarchy over distinct node ids whose levels name distinct types
HierarchyReturned ==
    /\ Succeeded /\ TopologyIs("hierarchy") /\ Distinct(OutIds)
    /\ Len(UsedLevels) >= 1 /\ Distinct(UsedLevels)

\* C23: hierarchy with k > 1 level-0 nodes r_0..r_{k-1}: the edges between
\* level-0 nodes are exactly the k ring edges r_i -> r_{(i+1) mod k}, and the
\* tree starts at level 1: no level-0 node is the source of an edge to a node
\* outside level 0 (no level-0 node is given level-1 children).
C23_TreeStartsAtLevelOne ==
    (HierarchyReturned /\ WellFormedGroups /\ CountsPositive
       /\ Len(NodesOfType(UsedLevels[1])) > 1) =>
        LET roots == NodesOfType(UsedLevels[1])
            k == Len(roots)
            out_edges == OutEdges
            among == SelectSeq(out_edges, LAMBDA e : e.source \in Range(roots)
                                                      /\ e.target \in Range(roots))
        IN  /\ [i \in 1..Len(among) |-> <<among[i].source, among[i].target>>]
                  = [i \in 1..k |-> <<roots[i], roots[(i % k) + 1]>>]
            /\ \A i \in 1..Len(out_edges) :
                 out_edges[i].source \in Range(roots) => out_edges[i].target \in Range(roots)

\* ------------------------------------------------------------------
\* C24
\* ------------------------------------------------------------------
UsedHierarchy == MergeParams(HierarchyDefaultParams, GivenParams)

\* the fan-out of every level transition
UsedBranchFactor == HierarchyBranchFactor(UsedHierarchy.branch_factor, Len(UsedLevels))

Min(x, y) == IF x < y THEN x ELSE y

\* the level transitions (parent level l, 1-based) the tree loop handles:
\* every one but the transition below a single root, with parents and children
TreeTransitions ==
    {l \in 1..(Len(UsedLevels) - 1) :
        /\ l = 1 => Len(NodesOfType(UsedLevels[1])) # 1
        /\ NodesOfType(UsedLevels[l]) # <<>>
        /\ NodesOfType(UsedLevels[l + 1]) # <<>>}

\* parent p_j gets the children c_{j*f} .. c_{min(n, (j+1)*f) - 1}
SaturatedPairs(parents, children, f) ==
    Concat([j \in 1..Len(parents) |->
              [x \in 1..(Min(Len(children), j * f) - (j - 1) * f) |->
                 <<parents[j], children[(j - 1) * f + x]>>]])

\* a finished hierarchy call over distinct node ids whose levels name distinct
\* types and whose branch factor has a fan-out >= 0 for every transition
HierarchyFanOutsGiven ==
    /\ Done /\ TopologyIs("hierarchy") /\ ir.nodes.tag = "list" /\ ir.params.tag = "dict"
    /\ Distinct(InputIds)
    /\ LET levels == HierarchyLevels(InputIds, ParamGet(GivenParams, "levels"))
           bf == HierarchyBranchFactor(UsedHierarchy.branch_factor, Len(levels))
       IN  /\ levels # <<>> /\ Distinct(levels)
           /\ Len(bf) >= Len(levels) - 1
           /\ \A i \in 1..Len(bf) : bf[i] >= 0

BelowRingEdges ==
    LET k == Len(NodesOfType(UsedLevels[1]))
    IN  IF k > 1 THEN SubSeq(OutEdges, k + 1, Len(OutEdges)) ELSE OutEdges

\* the nodes reachable from the nodes S along the edges es
RECURSIVE ReachableFrom(_, _)
ReachableFrom(es, S) ==
    LET next == S \cup {es[i].target : i \in {j \in 1..Len(es) : es[j].source \in S}}
    IN  IF next = S THEN S ELSE ReachableFrom(es, next)

Acyclic(es) ==
    \A i \in 1..Len(es) : es[i].source \notin ReachableFrom(es, {es[i].target})

\* C25: hierarchy creates no cycles below level 0: for every levels list and
\* branch factor, the returned edges other than the level-0 ring edges form
\* an acyclic directed graph, each such edge going from a node of level i to
\* a node of level i+1.
C25_AcyclicBelowLevelZero ==
    (Succeeded /\ TopologyIs("hierarchy") /\ WellFormedGroups /\ CountsPositive
       /\ Len(UsedLevels) >= 1) =>
        LET es == BelowRingEdges
        IN  /\ Acyclic(es)
            /\ \A i \in 1..Len(es) :
                 \E l \in 1..(Len(UsedLevels) - 1) :
                    /\ es[i].source \in Range(NodesOfType(UsedLevels[l]))
                    /\ es[i].target \in Range(NodesOfType(UsedLevels[l + 1]))

\* ------------------------------------------------------------------
\* C26
\* ------------------------------------------------------------------
\* C26: hierarchy: each child has exactly one parent: in every returned edge
\* list (over well-formed groups, levels that name distinct types which all
\* have nodes, and fan-outs >= 1), every node of a level >= 1 is the target
\* of exactly one edge.
C26_ExactlyOneParent ==
    (HierarchyReturned /\ WellFormedGroups /\ CountsPositive
       /\ \A l \in 1..Len(UsedLevels) : NodesOfType(UsedLevels[l]) # <<>>
       /\ \A i \in 1..Len(UsedBranchFactor) : UsedBranchFactor[i] >= 1) =>
        LET out_edges == OutEdges
        IN  \A l \in 2..Len(UsedLevels) :
              \A n \in Range(NodesOfType(UsedLevels[l])) :
                 Cardinality({i \in 1..Len(out_edges) : out_edges[i].target = n}) = 1

\* ------------------------------------------------------------------
\* C27
\* ------------------------------------------------------------------
\* C27: small_world with rewiring_prob = 0.0 consumes no randomness: the state
\* of the random source after build_edges equals its state before the call
\* (no draw is taken from it).
C27_NoDrawWithoutRewiring ==
    (Succeeded /\ TopologyIs("small_world") /\ WellFormedGroups /\ CountsPositive
       /\ UsedSmallWorld.rewiring_prob = Some(0)) =>
        rng = calls[Len(calls)].rng

ClaimedInstances(g) ==
    IF g.id = None \/ Strip(g.id[1]) = <<>> THEN <<>>
    ELSE [i \in 1..(IF g.count = None \/ g.count[1] = 0 THEN 1 ELSE g.count[1]) |->
            InstanceId(Strip(g.id[1]), i)]

\* C29: node expansion skips, without raising an error, every group whose id
\* is empty after trimming, and treats an absent or falsy count (0 included)
\* as 1, so that such a group contributes exactly one flat node: a call over
\* dict groups fails only inside build_edges, after the expansion, and a call
\* that returns holds, group after group, the instances named above.
C29_EmptyIdSkippedCountDefaulted ==
    (Done /\ ReachesBuildEdges(CanonicalLoad, GivenIR) /\ GivenIR.nodes.tag = "list"
       /\ \A i \in 1..Len(GivenIR.nodes.v) : GivenIR.nodes.v[i].isDict) =>
        /\ Failed => result.msg = "build_edges"
        /\ Succeeded =>
             OutIds = Concat([i \in 1..Len(GivenIR.nodes.v) |->
                                ClaimedInstances(GivenIR.nodes.v[i])])

\* a group with a blank id and two instances is skipped and a group with
\* count 0 gives one node
C29_Witness ==
    /\ Succeeded
    /\ GivenIR.nodes.v = <<PlainGroup(<<" ">>, 2), PlainGroup(A, 0)>>
    /\ OutIds = <<InstanceId(A, 1)>>

\* ------------------------------------------------------------------
\* C30
\* ------------------------------------------------------------------
KnownLevelTypes ==
    {<<"a", "d", "m", "i", "n", "i", "s", "t", "r", "a", "t", "o", "r">>,
     <<"p", "r", "i", "n", "c", "i", "p", "a", "l">>,
     <<"t", "e", "a", "c", "h", "e", "r">>,
     <<"s", "t", "u", "d", "e", "n", "t">>}

\* the types of the flat nodes of the call
InputTypes == {RSplitBase(InputIds[i]) : i \in 1..Len(InputIds)}

LevelsDeclared ==
    ParamGet(GivenParams, "levels") # None /\ ParamGet(GivenParams, "levels") # Some(<<>>)

\* C30: hierarchy level inference only knows the types administrator,
\* principal, teacher and student.  When params.levels is absent or empty and
\* no flat node has one of these types (an empty node list included),
\* build_edges fails with an error instead of returning an empty edge list,
\* and when it returns, every edge joins nodes of these types; when levels
\* is declared and names only types that have no node, the call returns no
\* edge, without an error.
C30_LevelInference ==
    (Done /\ TopologyIs("hierarchy") /\ ir.nodes.tag \in {"absent", "list"}
       /\ ir.params.tag # "other") =>
        /\ (~LevelsDeclared /\ InputTypes \cap KnownLevelTypes = {}) =>
              Failed /\ result.msg = "build_edges" /\ result.etype = "IndexError"
        /\ (~LevelsDeclared /\ Succeeded) =>
              \A i \in 1..Len(OutEdges) :
                 /\ RSplitBase(OutEdges[i].source) \in KnownLevelTypes
                 /\ RSplitBase(OutEdges[i].target) \in KnownLevelTypes
        /\ (LevelsDeclared
              /\ Range(ParamGet(GivenParams, "levels")[1]) \cap InputTypes = {}) =>
              Succeeded /\ OutEdges = <<>>

\* no levels given, nodes of the types a and b only: IndexError
C30_Witness ==
    /\ Failed /\ TopologyIs("hierarchy")
    /\ result.etype = "IndexError"
    /\ ParamGet(GivenParams, "levels") = None
    /\ InputTypes = {A, B}

====
